---- MODULE Spec2Model ----
(***************************************************************************)
(* Model of the uscsi passthrough binding (src/src/lib.rs).               *)
(*                                                                         *)
(* The crate is four entry points -- read, write, reset, max_xfer -- that  *)
(* marshal a uscsi_cmd descriptor (or a bare u64) and hand it to ioctl(2). *)
(* The kernel side of ioctl is the environment: what it writes into the    *)
(* payload, what it returns and what it leaves in errno are chosen         *)
(* nondeterministically.  Every behaviour is one call made by a caller     *)
(* whose thread already carries some errno value.                          *)
(*                                                                         *)
(* Integers are kept at the width the source gives them where a cast can   *)
(* change the value (usize -> c_uchar, u16 -> i16, u64 -> usize).  A u64   *)
(* is a little-endian sequence of 8 bytes, since 2^64 is outside the       *)
(* range of the model checker's integers.                                  *)
(***************************************************************************)
EXTENDS Integers, Sequences, FiniteSets, TLC

VARIABLES
    call,     \* the entry point invoked and the arguments it was given
    ioctls,   \* control requests issued by the call, payload as submitted
    cmd,      \* the descriptor as the kernel left it when ioctl returned
    val,      \* max_xfer's u64 as the kernel left it when ioctl returned
    ret,      \* value returned by ioctl
    errno,    \* the thread's last OS error
    result    \* value returned to the caller

vars == <<call, ioctls, cmd, val, ret, errno, result>>

----------------------------------------------------------------------------
(* Bounds of the model *)

\* Largest number of flag bits a caller combines in one call.
MaxFlagBits == 2

----------------------------------------------------------------------------
(* Bit arithmetic on non-negative integers *)

RECURSIVE BitOr(_, _)
BitOr(a, b) ==
    IF a = 0 THEN b
    ELSE IF b = 0 THEN a
    ELSE (IF (a % 2 = 1) \/ (b % 2 = 1) THEN 1 ELSE 0)
         + 2 * BitOr(a \div 2, b \div 2)

\* Flags::contains for a single-bit flag.
HasBit(x, bit) == (x \div bit) % 2 = 1

----------------------------------------------------------------------------
(* Control codes *)

USCSIIOC == 4 * 256
USCSICMD == BitOr(USCSIIOC, 201)
USCSIMAXXFER == BitOr(USCSIIOC, 202)

----------------------------------------------------------------------------
(* Flags *)

SILENT == 1
DIAGNOSE == 2
ISOLATE == 4
READ == 8
WRITE == 0
RESET == 16384
RESET_ALL == 32768
RQENABLE == 65536
RENEGOT == 131072
RESET_LUN == 262144
PATH_INSTANCE == 524288

FlagBits ==
    {SILENT, DIAGNOSE, ISOLATE, READ, RESET, RESET_ALL, RQENABLE, RENEGOT,
     RESET_LUN, PATH_INSTANCE}

RECURSIVE OrAll(_)
OrAll(S) ==
    IF S = {} THEN WRITE
    ELSE LET b == CHOOSE x \in S : TRUE IN BitOr(b, OrAll(S \ {b}))

\* The flag sets a caller passes in.
FlagSets == {OrAll(S) : S \in {T \in SUBSET FlagBits : Cardinality(T) <= MaxFlagBits}}

----------------------------------------------------------------------------
(* Integer casts *)

Zero64 == <<0, 0, 0, 0, 0, 0, 0, 0>>

\* Width of usize / size_t / uintptr_t in bytes on the targets that have uscsi.
PointerBytes == 8

\* A cast that saturates instead of wrapping.
AsCUCharSaturating(n) == IF n > 255 THEN 255 ELSE n

\* `as c_uchar` from usize: keeps the low 8 bits.
AsCUChar(n) == n % 256

\* A cast that clamps to i16::MAX instead of reinterpreting the bits.
AsI16Clamped(t) == IF t > 32767 THEN 32767 ELSE t

\* `as i16` from u16: reinterprets the 16 bits as two's complement.
AsI16(t) == IF t % 65536 >= 32768 THEN (t % 65536) - 65536 ELSE t % 65536

\* `as usize` from c_uchar: zero extension.
UCharAsUsize(b) == b % 256

\* A cast through a 32-bit integer.
U64AsU32(v) == SubSeq(v, 1, 4) \o <<0, 0, 0, 0>>

\* `as usize` from u64 (little-endian bytes): keeps the low PointerBytes bytes.
U64AsUsize(v) == SubSeq(v, 1, PointerBytes)

----------------------------------------------------------------------------
(* The command descriptor *)

\* UScsiCmd::default()
DefaultCmd ==
    [flags |-> 0, status |-> 0, timeout |-> 0, cdb |-> 0, bufaddr |-> 0,
     buflen |-> 0, resid |-> 0, cdblen |-> 0, rqlen |-> 0, rqstatus |-> 0,
     rqresid |-> 0, rqbuf |-> 0, path_instance |-> 0]

\* Option<&mut [u8]> and slices: a slice is its address and its length.
None == [some |-> FALSE, ptr |-> 0, len |-> 0]
Some(buf) == [some |-> TRUE, ptr |-> buf.ptr, len |-> buf.len]

----------------------------------------------------------------------------
(* What callers pass in *)

Fds == {3}

CdbLens == {6, 255, 300}
DataLens == {0, 512}
SenseLens == {18, 300}
Timeouts == {0, 32767, 32768, 65535}

CdbBufs == {[ptr |-> 4096, len |-> n] : n \in CdbLens}
DataBufs == {[ptr |-> 8192, len |-> n] : n \in DataLens}
SenseOpts == {None} \cup {Some([ptr |-> 12288, len |-> n]) : n \in SenseLens}

----------------------------------------------------------------------------
(* The kernel side of ioctl(2) *)

EIO == 5
EINVAL == 22
Errnos == {EIO, EINVAL}

\* What the driver may store in the kernel-filled fields of a descriptor.
\* A command that ends in CHECK CONDITION (status 2) is the one that leaves a
\* sense residual.
KernelWrites ==
    {[status |-> IF q = 0 THEN 0 ELSE 2, resid |-> r, rqstatus |-> 0, rqresid |-> q] :
        r \in {0, 512}, q \in {0, 255}}

\* What the driver may store in max_xfer's u64.
KernelVals ==
    {Zero64,
     <<0, 0, 16, 0, 0, 0, 0, 0>>,
     <<255, 255, 255, 255, 0, 0, 0, 0>>,
     <<0, 0, 0, 0, 1, 0, 0, 0>>,
     <<255, 255, 255, 255, 255, 255, 255, 255>>}

\* ioctl returns 0, or -1 with errno set, or a driver-chosen positive value
\* that leaves errno as it was.
IoctlReturns ==
    {[ret |-> 0, errno |-> 0], [ret |-> 1, errno |-> 0]}
        \cup {[ret |-> -1, errno |-> e] : e \in Errnos}

CmdOutcomes == {[r |-> r, w |-> w] : r \in IoctlReturns, w \in KernelWrites}
ValOutcomes == {[r |-> r, v |-> v] : r \in IoctlReturns, v \in KernelVals}

KernelFill(c, w) ==
    [c EXCEPT !.status = w.status, !.resid = w.resid,
              !.rqstatus = w.rqstatus, !.rqresid = w.rqresid]

ErrnoAfter(r, e) == IF r.ret = -1 THEN r.errno ELSE e

----------------------------------------------------------------------------
(* Results *)

Ok(v) == [kind |-> "Ok", value |-> v]
Err(code) == [kind |-> "Err", code |-> code]
NoResult == [kind |-> "None"]

\* std::io::Error::last_os_error()
last_os_error(e) == Err(e)

----------------------------------------------------------------------------
(* common *)

\* A sense buffer that does not switch auto-sense on.
common_flags_unforced(sense, flags) == flags

\* lines 56-62: the flags after the sense option has been looked at
common_flags(sense, flags) ==
    IF sense.some THEN BitOr(flags, RQENABLE) ELSE flags

\* lines 57-62: (rqbuf, rqlen)
common_rq(sense) ==
    IF sense.some THEN <<sense.ptr, AsCUChar(sense.len)>> ELSE <<0, 0>>

\* A descriptor whose residual starts at the full transfer length.
common_cmd_resid(cdb, data, datalen, sense, flags, timeout) ==
    [flags |-> common_flags(sense, flags),
     status |-> 0,
     timeout |-> AsI16(timeout),
     cdb |-> cdb.ptr,
     bufaddr |-> data,
     buflen |-> datalen,
     resid |-> datalen,
     cdblen |-> AsCUChar(cdb.len),
     rqlen |-> common_rq(sense)[2],
     rqstatus |-> 0,
     rqresid |-> 0,
     rqbuf |-> common_rq(sense)[1],
     path_instance |-> 0]

\* lines 64-78: the descriptor handed to ioctl
common_cmd(cdb, data, datalen, sense, flags, timeout) ==
    [flags |-> common_flags(sense, flags),
     status |-> 0,
     timeout |-> AsI16(timeout),
     cdb |-> cdb.ptr,
     bufaddr |-> data,
     buflen |-> datalen,
     resid |-> 0,
     cdblen |-> AsCUChar(cdb.len),
     rqlen |-> common_rq(sense)[2],
     rqstatus |-> 0,
     rqresid |-> 0,
     rqbuf |-> common_rq(sense)[1],
     path_instance |-> 0]

\* A match that returns the residuals in the other order.
common_result_swapped(r, c, e) ==
    IF r = 0 THEN Ok(<<UCharAsUsize(c.rqresid), c.resid>>) ELSE last_os_error(e)

\* A match that takes only a negative return for a failure.
common_result_negative(r, c, e) ==
    IF r >= 0 THEN Ok(<<c.resid, UCharAsUsize(c.rqresid)>>) ELSE last_os_error(e)

\* lines 80-83: the match on ioctl's return value
common_result(r, c, e) ==
    IF r = 0 THEN Ok(<<c.resid, UCharAsUsize(c.rqresid)>>) ELSE last_os_error(e)

common(fd, cdb, data, datalen, sense, flags, timeout, k) ==
    LET c == common_cmd(cdb, data, datalen, sense, flags, timeout) IN
    /\ ioctls' = Append(ioctls, [fd |-> fd, request |-> USCSICMD,
                                 arg |-> [kind |-> "uscsi_cmd", cmd |-> c]])
    /\ cmd' = KernelFill(c, k.w)
    /\ ret' = k.r.ret
    /\ errno' = ErrnoAfter(k.r, errno)
    /\ result' = common_result(ret', cmd', errno')
    /\ UNCHANGED val

----------------------------------------------------------------------------
(* The entry points *)

\* A read that leaves the direction to the caller.
read_flags_unforced(flags) == flags

\* line 96
read_flags(flags) == BitOr(flags, READ)

read(fd, cdb, data, sense, flags, timeout, k) ==
    /\ call' = [op |-> "read", fd |-> fd, cdb |-> cdb, data |-> data,
                sense |-> sense, flags |-> flags, timeout |-> timeout]
    /\ common(fd, cdb, data.ptr, data.len, sense, read_flags(flags), timeout, k)

\* line 111
write_flags(flags) == BitOr(flags, WRITE)

write(fd, cdb, data, sense, flags, timeout, k) ==
    /\ call' = [op |-> "write", fd |-> fd, cdb |-> cdb, data |-> data,
                sense |-> sense, flags |-> flags, timeout |-> timeout]
    /\ common(fd, cdb, data.ptr, data.len, sense, write_flags(flags), timeout, k)

\* A reset that asks for a bus reset as well.
reset_cmd_all == [DefaultCmd EXCEPT !.flags = BitOr(RESET, RESET_ALL)]

\* lines 117-120: the descriptor reset hands to ioctl
reset_cmd == [DefaultCmd EXCEPT !.flags = RESET]

\* lines 122-125
reset_result(r, e) == IF r = 0 THEN Ok(<<>>) ELSE last_os_error(e)

reset(fd, k) ==
    /\ call' = [op |-> "reset", fd |-> fd]
    /\ ioctls' = Append(ioctls, [fd |-> fd, request |-> USCSICMD,
                                 arg |-> [kind |-> "uscsi_cmd", cmd |-> reset_cmd]])
    /\ cmd' = KernelFill(reset_cmd, k.w)
    /\ ret' = k.r.ret
    /\ errno' = ErrnoAfter(k.r, errno)
    /\ result' = reset_result(ret', errno')
    /\ UNCHANGED val

\* line 133: the request code max_xfer passes to ioctl
max_xfer_request == USCSIMAXXFER

\* lines 133-136
max_xfer_result(r, v, e) == IF r = 0 THEN Ok(U64AsUsize(v)) ELSE last_os_error(e)

max_xfer(fd, k) ==
    /\ call' = [op |-> "max_xfer", fd |-> fd]
    /\ ioctls' = Append(ioctls, [fd |-> fd, request |-> max_xfer_request,
                                 arg |-> [kind |-> "u64", val |-> Zero64]])
    /\ val' = k.v
    /\ ret' = k.r.ret
    /\ errno' = ErrnoAfter(k.r, errno)
    /\ result' = max_xfer_result(ret', val', errno')
    /\ UNCHANGED cmd

----------------------------------------------------------------------------
(* The specification *)

Init ==
    /\ call = [op |-> "none"]
    /\ ioctls = <<>>
    /\ cmd = DefaultCmd
    /\ val = Zero64
    /\ ret = 0
    /\ errno \in {0} \cup Errnos
    /\ result = NoResult

\* One call per behaviour: an entry point is entered only while no call has
\* been made.
Idle == call.op = "none"

Read ==
    /\ Idle
    /\ \E fd \in Fds, cdb \in CdbBufs, data \in DataBufs, sense \in SenseOpts,
          flags \in FlagSets, timeout \in Timeouts, k \in CmdOutcomes :
           read(fd, cdb, data, sense, flags, timeout, k)

Write ==
    /\ Idle
    /\ \E fd \in Fds, cdb \in CdbBufs, data \in DataBufs, sense \in SenseOpts,
          flags \in FlagSets, timeout \in Timeouts, k \in CmdOutcomes :
           write(fd, cdb, data, sense, flags, timeout, k)

Reset == Idle /\ \E fd \in Fds, k \in CmdOutcomes : reset(fd, k)

MaxXfer == Idle /\ \E fd \in Fds, k \in ValOutcomes : max_xfer(fd, k)

Next == Read \/ Write \/ Reset \/ MaxXfer

Spec == Init /\ [][Next]_vars

----------------------------------------------------------------------------
(* Properties *)

ReadOrWrite == call.op \in {"read", "write"}

\* The descriptor as it was when the call handed it to ioctl.
Submitted == ioctls[1].arg.cmd

Bits == {2^i : i \in 0..30}

\* C1: the descriptor write() submits has the READ bit clear, whatever flags
\* the caller passed.
C1_WriteSubmitsReadClear ==
    call.op = "write" => ~HasBit(Submitted.flags, READ)

\* C2: the descriptor read() submits has the READ bit set, whatever flags the
\* caller passed, and bufaddr/buflen are the data buffer's address and length.
C2_ReadSubmitsReadSet ==
    call.op = "read" =>
        /\ Len(ioctls) = 1
        /\ HasBit(Submitted.flags, READ)
        /\ Submitted.bufaddr = call.data.ptr
        /\ Submitted.buflen = call.data.len

C2_Witness ==
    /\ call.op = "read"
    /\ ~HasBit(call.flags, READ)
    /\ HasBit(Submitted.flags, READ)
    /\ Submitted.bufaddr = 8192
    /\ Submitted.buflen = 512

\* C3: with a sense buffer the submitted descriptor has RQENABLE set, rqbuf
\* the buffer's address and rqlen its length mod 256; without one rqbuf and
\* rqlen are 0 and RQENABLE is set exactly when the caller's flags had it.
C3_SenseBuffer ==
    ReadOrWrite =>
        IF call.sense.some
        THEN /\ HasBit(Submitted.flags, RQENABLE)
             /\ Submitted.rqbuf = call.sense.ptr
             /\ Submitted.rqlen = call.sense.len % 256
        ELSE /\ Submitted.rqbuf = 0
             /\ Submitted.rqlen = 0
             /\ HasBit(Submitted.flags, RQENABLE) <=> HasBit(call.flags, RQENABLE)

C3_Witness ==
    /\ ReadOrWrite
    /\ call.sense.some
    /\ call.sense.len = 300
    /\ ~HasBit(call.flags, RQENABLE)
    /\ HasBit(Submitted.flags, RQENABLE)
    /\ Submitted.rqbuf = 12288
    /\ Submitted.rqlen = 44

\* C4: when ioctl returns 0, read()/write() return Ok((d, s)) with d the resid
\* and s the rqresid the kernel left in the descriptor.
C4_ResidualsFromKernel ==
    (ReadOrWrite /\ ret = 0) =>
        /\ result.kind = "Ok"
        /\ result.value = <<cmd.resid, cmd.rqresid>>

C4_Witness ==
    /\ ReadOrWrite
    /\ ret = 0
    /\ Submitted.resid = 0
    /\ Submitted.rqresid = 0
    /\ cmd.resid = 512
    /\ cmd.rqresid = 255
    /\ result = Ok(<<512, 255>>)

\* C5: when ioctl returns non-zero, read()/write()/reset() have issued that one
\* request only and return an error carrying errno and nothing else.
C5_FailureIsLastOsError ==
    (call.op \in {"read", "write", "reset"} /\ ret # 0) =>
        /\ Len(ioctls) = 1
        /\ DOMAIN result = {"kind", "code"}
        /\ result.kind = "Err"
        /\ result.code = errno

C5_Witness ==
    /\ ReadOrWrite
    /\ ret = 1
    /\ cmd.resid = 512
    /\ cmd.rqresid = 255
    /\ errno = EINVAL
    /\ result = Err(EINVAL)

\* C6: reset() submits, under USCSICMD, a descriptor whose flags are exactly
\* RESET and whose other fields are all 0, and returns Ok(()) when ioctl
\* returns 0.
C6_ResetDescriptor ==
    call.op = "reset" =>
        /\ Len(ioctls) = 1
        /\ ioctls[1].request = USCSICMD
        /\ ioctls[1].arg.kind = "uscsi_cmd"
        /\ Submitted.flags = 16384
        /\ \A f \in DOMAIN Submitted \ {"flags"} : Submitted[f] = 0
        /\ DOMAIN Submitted = DOMAIN DefaultCmd
        /\ ret = 0 => result = Ok(<<>>)

C6_Witness ==
    /\ call.op = "reset"
    /\ ret = 0
    /\ Submitted.flags = 16384
    /\ result = Ok(<<>>)

\* C7: max_xfer() issues one request, USCSIMAXXFER (not USCSICMD), on a u64
\* that starts at 0; it returns the value the kernel left there when ioctl
\* returns 0 and an error carrying errno otherwise.
C7_MaxXfer ==
    call.op = "max_xfer" =>
        /\ Len(ioctls) = 1
        /\ ioctls[1].request = USCSIMAXXFER
        /\ ioctls[1].request # USCSICMD
        /\ ioctls[1].arg.kind = "u64"
        /\ ioctls[1].arg.val = Zero64
        /\ ret = 0 => result = Ok(val)
        /\ ret # 0 => result = Err(errno)

C7_Witness ==
    /\ call.op = "max_xfer"
    /\ ret = 0
    /\ val = <<0, 0, 0, 0, 1, 0, 0, 0>>
    /\ result = Ok(<<0, 0, 0, 0, 1, 0, 0, 0>>)

\* C8 as stated: cdblen is the CDB length when that is at most 255, and a
\* 300-byte CDB gives cdblen 255.
C8_CdbLenSaturates ==
    ReadOrWrite =>
        /\ call.cdb.len <= 255 => Submitted.cdblen = call.cdb.len
        /\ call.cdb.len = 300 => Submitted.cdblen = 255

\* C8 amended: cdblen is the CDB length when that is at most 255, and a
\* 300-byte CDB gives cdblen 44, the low 8 bits of 300.
C8_CdbLenWraps ==
    ReadOrWrite =>
        /\ call.cdb.len <= 255 => Submitted.cdblen = call.cdb.len
        /\ call.cdb.len = 300 => Submitted.cdblen = 44

C8_Witness ==
    /\ ReadOrWrite
    /\ call.cdb.len = 300
    /\ Submitted.cdblen = 44

\* C9: the submitted timeout is t for t in 0..32767 and t - 65536, a negative
\* number, for t in 32768..65535; the request is issued all the same and the
\* call's result follows ioctl's return value.
C9_TimeoutReinterpreted ==
    ReadOrWrite =>
        /\ call.timeout <= 32767 => Submitted.timeout = call.timeout
        /\ call.timeout >= 32768 =>
               Submitted.timeout = call.timeout - 65536 /\ Submitted.timeout < 0
        /\ Len(ioctls) = 1
        /\ result.kind = "Ok" <=> ret = 0

C9_Witness ==
    /\ ReadOrWrite
    /\ call.timeout = 32768
    /\ Submitted.timeout = -32768
    /\ ret = 0
    /\ result.kind = "Ok"

\* C10: the submitted flags are the caller's bits plus READ for read() and
\* RQENABLE for a supplied sense buffer, no bit dropped and none added; and
\* status, resid, rqstatus, rqresid and path_instance are 0 at submission.
C10_FlagsAndZeroedFields ==
    ReadOrWrite =>
        /\ Submitted.flags >= 0
        /\ \A b \in Bits :
               HasBit(Submitted.flags, b) <=>
                   \/ HasBit(call.flags, b)
                   \/ b = 8 /\ call.op = "read"
                   \/ b = 65536 /\ call.sense.some
        /\ Submitted.status = 0
        /\ Submitted.resid = 0
        /\ Submitted.rqstatus = 0
        /\ Submitted.rqresid = 0
        /\ Submitted.path_instance = 0

C10_Witness ==
    /\ call.op = "write"
    /\ call.flags = 524288 + 8
    /\ call.sense.some
    /\ call.data.len = 512
    /\ Submitted.flags = 524288 + 65536 + 8
    /\ Submitted.path_instance = 0
    /\ Submitted.resid = 0

====
